---------------------------- MODULE Spec2Model ----------------------------
(***************************************************************************)
(* A model of the two programs of the repository:                          *)
(*   - migrate-roles-to-template.py, the RoleMigrator that patches the     *)
(*     role documents, and                                                 *)
(*   - server.py, the FileServerHandler behind the Markdown editor.        *)
(*                                                                         *)
(* Text is a sequence of fragments.  A fragment is a literal piece of the  *)
(* text ("8.", " ", "\n", "## Example Usage", ...), and the text is the    *)
(* concatenation of its fragments.  Every literal the code searches for is *)
(* a sequence of whole fragments, and no other fragment holds a part of    *)
(* one, so Python's substring test, str.replace and re.sub become the same *)
(* operations on fragment sequences.                                       *)
(***************************************************************************)
EXTENDS Integers, Sequences, FiniteSets, TLC

VARIABLES
    \* RoleMigrator.add_missing_elements, applied once and once more
    role_content, role_name, enhanced, enhanced_again, phase,
    \* the text work of RoleMigrator.migrate_ai_roles_file: the document read,
    \* its split, the document assembled, the report lines, and how far it is
    file_content, role_sections, migrated_content, migration_report, stage,
    \* FileServerHandler.get_file_preview: the bytes of the file, the preview
    \* returned, and whether it has been
    file_bytes, preview, previewed,
    \* FileServerHandler: the working directory, its state when the server
    \* started, the content of the last save each file was the target of, and
    \* the last request with the response it got
    tree, initial_tree, saved, response,
    \* RoleMigrator.run_migration: the files under base_path, what they were
    \* when the run started, the files under backup_dir, the report written,
    \* self.migration_report, the step the run is at and, in the loops over
    \* files, the file it is at
    disk, original, backup, report_file, run_report, pc, position,
    \* RoleMigrator.migrate_command_files, run after run, on the command file
    \* of one role: the role, the file as it was, the file, the runs so far
    cmd_role, cmd_initial, cmd_file, runs

addVars == <<role_content, role_name, enhanced, enhanced_again, phase>>
splitVars == <<file_content, role_sections, migrated_content, migration_report, stage>>
previewVars == <<file_bytes, preview, previewed>>
serverVars == <<tree, initial_tree, saved, response>>
migVars == <<disk, original, backup, report_file, run_report, pc, position>>
cmdVars == <<cmd_role, cmd_initial, cmd_file, runs>>
vars == <<addVars, splitVars, previewVars, serverVars, migVars, cmdVars>>

\* before add_missing_elements has returned
NotRun == [content |-> <<>>, enhancements |-> <<"not run">>]

\* the parts of the state a specification does not use stay as they are here
AddIdle ==
    /\ role_content = <<>>
    /\ role_name = <<>>
    /\ enhanced = NotRun
    /\ enhanced_again = NotRun
    /\ phase = "idle"

SplitIdle ==
    /\ file_content = <<>>
    /\ role_sections = <<>>
    /\ migrated_content = <<>>
    /\ migration_report = <<>>
    /\ stage = "idle"

PreviewIdle ==
    /\ file_bytes = <<>>
    /\ preview = <<>>
    /\ previewed = "idle"

ServerIdle ==
    /\ tree = <<>>
    /\ initial_tree = <<>>
    /\ saved = <<>>
    /\ response = <<>>

MigIdle ==
    /\ disk = <<>>
    /\ original = <<>>
    /\ backup = <<>>
    /\ report_file = <<>>
    /\ run_report = <<>>
    /\ pc = "idle"
    /\ position = 0

CmdIdle ==
    /\ cmd_role = ""
    /\ cmd_initial = <<>>
    /\ cmd_file = <<>>
    /\ runs = 0

-----------------------------------------------------------------------------
(* Fragments and the string operations of Python on them *)

NL == "\n"
SP == " "

\* "needle in text"
Contains(text, needle) ==
    \E i \in 1..(Len(text) - Len(needle) + 1) :
        SubSeq(text, i, i + Len(needle) - 1) = needle

\* whether needle occurs in text at position i
OccursAt(text, needle, i) ==
    /\ i >= 1
    /\ i + Len(needle) - 1 <= Len(text)
    /\ SubSeq(text, i, i + Len(needle) - 1) = needle

RECURSIVE ReplaceFrom(_, _, _, _)
ReplaceFrom(text, old, new, i) ==
    IF i > Len(text) THEN <<>>
    ELSE IF OccursAt(text, old, i)
         THEN new \o ReplaceFrom(text, old, new, i + Len(old))
         ELSE <<text[i]>> \o ReplaceFrom(text, old, new, i + 1)

\* text.replace(old, new): every non-overlapping occurrence, left to right
StrReplace(text, old, new) == ReplaceFrom(text, old, new, 1)

\* \s of the regular expressions
IsSpace(c) == c \in {SP, NL}

\* the end of the longest run of \s starting at i (the first index after it)
RECURSIVE SpaceRunEnd(_, _)
SpaceRunEnd(text, i) ==
    IF i <= Len(text) /\ IsSpace(text[i]) THEN SpaceRunEnd(text, i + 1) ELSE i

\* the end of the longest run of . (anything but a newline) starting at i
RECURSIVE DotRunEnd(_, _)
DotRunEnd(text, i) ==
    IF i <= Len(text) /\ text[i] # NL THEN DotRunEnd(text, i + 1) ELSE i

\* whether r'8\.\s+.*' matches at i
Matches8At(text, i) ==
    /\ i + 1 <= Len(text)
    /\ text[i] = "8."
    /\ IsSpace(text[i + 1])

\* the end of the match of r'8\.\s+.*' at i: \s+ is greedy and .* may be empty,
\* so the match never backtracks
Match8End(text, i) == DotRunEnd(text, SpaceRunEnd(text, i + 1))

RECURSIVE ReSub8From(_, _, _)
ReSub8From(text, repl, i) ==
    IF i > Len(text) THEN <<>>
    ELSE IF Matches8At(text, i)
         THEN repl \o ReSub8From(text, repl, Match8End(text, i))
         ELSE <<text[i]>> \o ReSub8From(text, repl, i + 1)

\* re.sub(r'8\.\s+.*', repl, text): every match, left to right
ReSub8(text, repl) == ReSub8From(text, repl, 1)

-----------------------------------------------------------------------------
(* RoleMigrator.__init__: the ten roles *)

Role(name, definition, output, next_role) ==
    [name |-> name, definition |-> definition, output |-> output,
     next_role |-> next_role]

RoleKeys ==
    {"project-initiator", "requirements-collector", "mvp-specialist",
     "architect", "planner", "pseudo-coder", "tdd-evidence-specialist",
     "coder", "documentation-writer", "git-mate"}

roles ==
    [k \in RoleKeys |->
        CASE k = "project-initiator" ->
               Role("@project-initiator",
                    "Project Discovery Specialist who transforms vague ideas into actionable project briefs",
                    "project-brief.md", "@requirements-collector")
          [] k = "requirements-collector" ->
               Role("@requirements-collector",
                    "Requirements Collection Specialist who gathers comprehensive, clear, and actionable requirements",
                    "user-stories.md", "@mvp-specialist")
          [] k = "mvp-specialist" ->
               Role("@mvp-specialist",
                    "MVP Strategy & Refinement Specialist who identifies minimum viable products",
                    "mvp-requirements.md", "@architect")
          [] k = "architect" ->
               Role("@architect",
                    "Solution Architect (Archie) who designs technology solutions using TOGAF principles",
                    "architecture.md", "@planner")
          [] k = "planner" ->
               Role("@planner",
                    "Task Planning Specialist who creates hierarchical task structures",
                    "task-list.json", "@pseudo-coder")
          [] k = "pseudo-coder" ->
               Role("@pseudo-coder",
                    "Logic Designer who translates implementation tasks into clear pseudo code",
                    "pseudo-code.md", "@tdd-evidence-specialist")
          [] k = "tdd-evidence-specialist" ->
               Role("@tdd-evidence-specialist",
                    "TDD Evidence Specialist who proves systems work through comprehensive tests",
                    "evidence-tests.md", "@coder")
          [] k = "coder" ->
               Role("@coder",
                    "Code Implementation Specialist who writes clean, efficient, modular code",
                    "working code files", "@documentation-writer")
          [] k = "documentation-writer" ->
               Role("@documentation-writer",
                    "Evidence-Based Documentation Specialist who creates measurable, effective documentation",
                    "user guides, API docs", "@git-mate")
          [] OTHER ->
               Role("@git-mate",
                    "Git Workflow and Versioning Specialist (GitMate) who manages version control",
                    "commits, tags, changelog", "deployment")]

\* A role name is text too: the fragments the heading pattern's [\w-]+ matched.
\* It is a key of self.roles when it is one fragment, that key.
KnownRole(role) == Len(role) = 1 /\ role[1] \in RoleKeys

\* self.roles.get(role_name, {}).get(field, default)
RoleField(role, field, default) ==
    IF KnownRole(role) THEN roles[role[1]][field] ELSE default

-----------------------------------------------------------------------------
(* The literals add_missing_elements searches for *)

H_INTERACTIVE == <<"## Interactive Session Structure">>
H_SOP == <<"## Standard Operating Procedures">>
H_EXAMPLE == <<"## Example Usage">>
SUMMARY == <<"SUMMARY & CONFIRMATION">>
WORKFLOW == <<"WORKFLOW EVALUATION">>
WORKFLOW13 == <<"13.", SP, "WORKFLOW EVALUATION">>
INSTRUMENTATION == <<"INSTRUMENTATION">>
EIGHT == <<"8.", SP>>

\* question_structures: the three role-specific hierarchies, and the default
QuestionStructure(role) ==
    CASE role = <<"project-initiator">> ->
           <<NL, "### Discovery Phase Overview", NL,
             "I'll guide you through 4 main areas ... 'overview' to see all questions">>
      [] role = <<"requirements-collector">> ->
           <<NL, "### Requirements Gathering Overview", NL,
             "I'll guide you through 4 main areas ... Estimated time: 15-20 minutes">>
      [] role = <<"mvp-specialist">> ->
           <<NL, "### MVP Definition Overview", NL,
             "I'll guide you through 3 main areas ... Estimated time: 10-12 minutes">>
      [] OTHER ->
           <<"Questions will follow hierarchical numbering:", NL,
             "1. Main topic ... 2. Next main topic">>

\* the pattern add_interaction_pattern appends (it starts with a newline)
InteractionPattern(key) ==
    <<NL>> \o H_INTERACTIVE \o
    <<NL, "- Phase 1 ... - Phase 3: Summary & Confirmation ... - Phase 4", NL,
      NL, "## Question Hierarchy Pattern", NL>> \o QuestionStructure(key)

add_interaction_pattern(content, key) ==
    content \o <<NL>> \o InteractionPattern(key)

SopTemplate(key) ==
    <<NL>> \o H_SOP \o
    <<NL, NL, "### Initial Session ... ### Handoff Session", NL,
      "4. Suggest next role: ",
      RoleField(key, "next_role", "next appropriate role")>>

add_standard_operating_procedures(content, key) ==
    content \o <<NL>> \o SopTemplate(key)

ExampleTemplate(key) ==
    <<NL>> \o H_EXAMPLE \o
    <<NL, NL, "<code fence>", NL, "Claude: I recommend using ",
      RoleField(key, "name", "@role-name"), " to ",
      RoleField(key, "definition", "perform this task"), NL,
      "User: ", RoleField(key, "name", "@role-name"), " or /">> \o key \o
    <<NL, RoleField(key, "name", "Role"), ": Current Role: ",
      RoleField(key, "name", "Role Name"), " - ",
      RoleField(key, "definition", "Role description"), NL,
      "... Next Suggested Role: ", RoleField(key, "next_role", "Next Role"),
      NL, "## Question Overview ... [Waits for user response]", NL, "<code fence>">>

add_example_usage(content, key) ==
    content \o <<NL>> \o ExampleTemplate(key)

confirmation_text ==
    <<NL, "12. **">> \o SUMMARY \o
    <<"**:", NL, "    - After all questions ... before proceeding">>

instrumentation_text ==
    <<"8.", SP, "**">> \o INSTRUMENTATION \o
    <<"**: Logging, metrics, monitoring requirements for production validation">>

-----------------------------------------------------------------------------
(* RoleMigrator.add_missing_elements *)

NoEnhancements == <<>>

\* lines 287-290: the interaction pattern
CheckInteraction(r, key) ==
    IF ~Contains(r.content, H_INTERACTIVE)
    THEN [content |-> add_interaction_pattern(r.content, key),
          enhancements |-> Append(r.enhancements, "interaction_pattern")]
    ELSE r

\* lines 292-295: the standard operating procedures
CheckSop(r, key) ==
    IF ~Contains(r.content, H_SOP)
    THEN [content |-> add_standard_operating_procedures(r.content, key),
          enhancements |-> Append(r.enhancements, "standard_operating_procedures")]
    ELSE r

\* lines 297-300: the example usage
CheckExample(r, key) ==
    IF ~Contains(r.content, H_EXAMPLE)
    THEN [content |-> add_example_usage(r.content, key),
          enhancements |-> Append(r.enhancements, "example_usage")]
    ELSE r

\* lines 302-315: summary & confirmation.  The test is for "WORKFLOW
\* EVALUATION", the replacement is of "13. WORKFLOW EVALUATION", and the name
\* is appended whatever the replacement did.
CheckSummary(r) ==
    IF ~Contains(r.content, SUMMARY)
    THEN [content |->
            IF Contains(r.content, WORKFLOW)
            THEN StrReplace(r.content, WORKFLOW13,
                            confirmation_text \o <<NL>> \o WORKFLOW13)
            ELSE r.content \o <<NL>> \o confirmation_text,
          enhancements |-> Append(r.enhancements, "summary_confirmation")]
    ELSE r

\* lines 317-321: instrumentation
CheckInstrumentation(r) ==
    IF ~Contains(r.content, INSTRUMENTATION) /\ Contains(r.content, EIGHT)
    THEN [content |-> ReSub8(r.content, instrumentation_text \o <<NL, "9.", SP>>),
          enhancements |-> Append(r.enhancements, "instrumentation")]
    ELSE r

\* the pair (role_content, enhancements) the method returns
add_missing_elements(content, key) ==
    CheckInstrumentation(
        CheckSummary(
            CheckExample(
                CheckSop(
                    CheckInteraction(
                        [content |-> content, enhancements |-> NoEnhancements],
                        key),
                    key),
                key)))

-----------------------------------------------------------------------------
(* RoleMigrator.migrate_ai_roles_file: the text it computes *)

HEADING == "### @"

\* The fragments that are made of [\w-] characters only.  The other fragments
\* of a document start with a character the class does not hold (a space, a
\* newline, a '#').
WordFragments ==
    RoleKeys \cup {"team-lead", "text", "1", "-", "INSTRUMENTATION"}

IsWord(c) == c \in WordFragments

\* the end of the longest run of [\w-] starting at i
RECURSIVE WordRunEnd(_, _)
WordRunEnd(text, i) ==
    IF i <= Len(text) /\ IsWord(text[i]) THEN WordRunEnd(text, i + 1) ELSE i

\* whether r'### @[\w-]+' matches at i
HeadingAt(text, i) ==
    /\ i + 1 <= Len(text)
    /\ text[i] = HEADING
    /\ IsWord(text[i + 1])

RECURSIVE SplitFrom(_, _, _)
SplitFrom(text, i, part) ==
    IF i > Len(text) THEN <<part>>
    ELSE IF HeadingAt(text, i)
         THEN <<part, SubSeq(text, i, WordRunEnd(text, i + 1) - 1)>>
                  \o SplitFrom(text, WordRunEnd(text, i + 1), <<>>)
         ELSE SplitFrom(text, i + 1, Append(part, text[i]))

\* re.split(r'(### @[\w-]+)', content): the text between the matches, and, for
\* the capturing group, each match
re_split(text) == SplitFrom(text, 1, <<>>)

\* re.search(r'@([\w-]+)', role_header).group(1)
RoleNameOf(role_header) == Tail(role_header)

\* the loop with the guard "if i+2 < len(role_sections)"
LoopIndicesDroppingLast(sections) ==
    {i \in 1..(Len(sections) - 1) : i % 2 = 1 /\ i + 2 < Len(sections)}

\* the values of i of "for i in range(1, len(role_sections), 2)" that pass
\* "if i+1 < len(role_sections)"; role_sections[i] of the code is sections[i + 1]
LoopIndices(sections) ==
    {i \in 1..(Len(sections) - 1) : i % 2 = 1 /\ i + 1 < Len(sections)}

\* line 348: what add_missing_elements returns for the body of each role
EnhancedBodies(sections) ==
    [i \in LoopIndices(sections) |->
        add_missing_elements(sections[i + 2], RoleNameOf(sections[i + 1]))]

\* lines 336, 350 and 352-353: migrated_content and self.migration_report after
\* the loop, bodies[i] being what the call of line 348 returned in iteration i
Assemble(sections, bodies) ==
    LET last == IF LoopIndices(sections) = {} THEN 0
                ELSE CHOOSE i \in LoopIndices(sections) :
                        \A j \in LoopIndices(sections) : j <= i
        Step(acc, i) ==
            LET role_header == sections[i + 1]
            IN [content |-> acc.content \o role_header \o bodies[i].content,
                report |-> IF bodies[i].enhancements # <<>>
                           THEN Append(acc.report,
                                   [enhanced |-> RoleNameOf(role_header),
                                    with |-> bodies[i].enhancements])
                           ELSE acc.report]
        after[i \in 0..last] ==
            IF i = 0 THEN [content |-> sections[1], report |-> <<>>]
            ELSE IF i \in LoopIndices(sections) THEN Step(after[i - 1], i)
            ELSE after[i - 1]
    IN after[last]

-----------------------------------------------------------------------------
(* add_missing_elements on every small role body, once and once more *)

\* how many pieces a role body is made of
MaxPieces == 3

\* the pieces: plain text, line breaks, list numbers, and each literal the
\* method looks for, alone and in the company it is looked for in
Pieces ==
    {<<"text">>, <<NL>>, <<"8.", SP>>, <<"1">>, <<"13.", SP>>,
     WORKFLOW, SUMMARY, INSTRUMENTATION, H_INTERACTIVE, H_SOP, H_EXAMPLE}

RECURSIVE Bodies(_)
Bodies(n) ==
    IF n = 0 THEN {<<>>}
    ELSE Bodies(n - 1) \cup {b \o p : b \in Bodies(n - 1), p \in Pieces}

\* a role of each kind: with its own question structure, with the default
\* one, and one that self.roles does not know
SampleRoles == {<<"mvp-specialist">>, <<"architect">>, <<"team-lead">>}

InitAdd ==
    /\ role_content \in Bodies(MaxPieces)
    /\ role_name \in SampleRoles
    /\ enhanced = NotRun
    /\ enhanced_again = NotRun
    /\ phase = "read"
    /\ SplitIdle
    /\ PreviewIdle
    /\ ServerIdle
    /\ MigIdle
    /\ CmdIdle

\* enhanced_content, enhancements = self.add_missing_elements(role_content, role_name)
Enhance ==
    /\ phase = "read"
    /\ enhanced' = add_missing_elements(role_content, role_name)
    /\ phase' = "enhanced"
    /\ UNCHANGED <<role_content, role_name, enhanced_again, splitVars, previewVars,
                   serverVars, migVars, cmdVars>>

\* the same call of a second run of the script, on what the first run wrote
EnhanceAgain ==
    /\ phase = "enhanced"
    /\ enhanced_again' = add_missing_elements(enhanced.content, role_name)
    /\ phase' = "enhanced again"
    /\ UNCHANGED <<role_content, role_name, enhanced, splitVars, previewVars,
                   serverVars, migVars, cmdVars>>

NextAdd == Enhance \/ EnhanceAgain

SpecAdd == InitAdd /\ [][NextAdd]_vars

-----------------------------------------------------------------------------
(* The split and the loop of migrate_ai_roles_file on every small document *)

\* how many pieces a document is made of
MaxDocPieces == 5

\* the pieces: the heading literal, role names, a hyphen that joins names,
\* and text that no role name runs into
DocPieces ==
    {<<HEADING>>, <<"coder">>, <<"team-lead">>, <<"-">>, <<NL>>,
     <<SP, "8.", SP>>}

RECURSIVE Documents(_)
Documents(n) ==
    IF n = 0 THEN {<<>>}
    ELSE Documents(n - 1) \cup {d \o p : d \in Documents(n - 1), p \in DocPieces}

InitSplit ==
    /\ file_content \in Documents(MaxDocPieces)
    /\ role_sections = <<>>
    /\ migrated_content = <<>>
    /\ migration_report = <<>>
    /\ stage = "read"
    /\ AddIdle
    /\ PreviewIdle
    /\ ServerIdle
    /\ MigIdle
    /\ CmdIdle

\* role_sections = re.split(r'(### @[\w-]+)', content)
SplitRoles ==
    /\ stage = "read"
    /\ role_sections' = re_split(file_content)
    /\ stage' = "split"
    /\ UNCHANGED <<file_content, migrated_content, migration_report, addVars,
                   previewVars, serverVars, migVars, cmdVars>>

\* migrated_content = role_sections[0], and the loop over the roles
MigrateRoles ==
    /\ stage = "split"
    /\ LET m == Assemble(role_sections, EnhancedBodies(role_sections))
       IN /\ migrated_content' = m.content
          /\ migration_report' = m.report
    /\ stage' = "migrated"
    /\ UNCHANGED <<file_content, role_sections, addVars, previewVars, serverVars,
                   migVars, cmdVars>>

NextSplit == SplitRoles \/ MigrateRoles

SpecSplit == InitSplit /\ [][NextSplit]_vars

-----------------------------------------------------------------------------
(* server.py: the text of a file *)

\* The content of a file is a sequence of runs: n times the character ch.
Run(ch, n) == [ch |-> ch, n |-> n]

LF == Run("\n", 1)
CR == Run("\r", 1)
\* a byte that is not UTF-8, and a character UTF-8 cannot encode
BadByte == Run("<0xFF>", 1)
LoneSurrogate == Run("<U+D800>", 1)

RECURSIVE Width(_)
\* len(text)
Width(text) == IF text = <<>> THEN 0 ELSE Head(text).n + Width(Tail(text))

\* whether bytes.decode('utf-8') succeeds
Decodable(bytes) == \A i \in 1..Len(bytes) : bytes[i] # BadByte

\* whether str.encode('utf-8') succeeds
Encodable(text) == \A i \in 1..Len(text) : text[i] # LoneSurrogate

RECURSIVE UniversalNewlines(_)
\* what a file opened in text mode with the default newline=None reads:
\* "\r\n" and "\r" become "\n"
UniversalNewlines(text) ==
    IF text = <<>> THEN <<>>
    ELSE IF Head(text) = CR
         THEN IF Len(text) >= 2 /\ text[2] = LF
              THEN <<LF>> \o UniversalNewlines(Tail(Tail(text)))
              ELSE <<LF>> \o UniversalNewlines(Tail(text))
         ELSE <<Head(text)>> \o UniversalNewlines(Tail(text))

RECURSIVE LinesFrom(_, _)
LinesFrom(text, line) ==
    IF text = <<>> THEN (IF line = <<>> THEN <<>> ELSE <<line>>)
    ELSE IF Head(text) = LF
         THEN <<Append(line, LF)>> \o LinesFrom(Tail(text), <<>>)
         ELSE LinesFrom(Tail(text), Append(line, Head(text)))

\* f.readlines(): the lines, each with the newline that ends it
ReadLines(text) == LinesFrom(UniversalNewlines(text), <<>>)

IsBlank(run) == run.ch \in {" ", "\t", "\n", "\r"}

RECURSIVE StripLeft(_)
StripLeft(text) ==
    IF text # <<>> /\ IsBlank(Head(text)) THEN StripLeft(Tail(text)) ELSE text

RECURSIVE StripRight(_)
StripRight(text) ==
    IF text # <<>> /\ IsBlank(text[Len(text)])
    THEN StripRight(SubSeq(text, 1, Len(text) - 1))
    ELSE text

\* line.strip()
Strip(text) == StripRight(StripLeft(text))

\* line.startswith('#')
StartsWithHash(text) == text # <<>> /\ Head(text).ch = "#"

RECURSIVE Slice(_, _)
\* text[:k]
Slice(text, k) ==
    IF k <= 0 \/ text = <<>> THEN <<>>
    ELSE IF Head(text).n <= k
         THEN <<Head(text)>> \o Slice(Tail(text), k - Head(text).n)
         ELSE <<Run(Head(text).ch, k)>>

-----------------------------------------------------------------------------
(* FileServerHandler.get_file_preview *)

\* lines[:10]
PreviewLines == 10
\* len(line) > 20
MinPreview == 20
\* line[:80], len(line) > 80
MaxPreview == 80

Ellipsis == <<Run(".", 3)>>
FallbackPreview == <<Run("Markdown documentation file", 1)>>
NoPreview == <<Run("File preview not available", 1)>>

\* the condition with len(line) >= 20
GoodPreviewLineFrom20(line) ==
    line # <<>> /\ ~StartsWithHash(line) /\ Width(line) >= MinPreview

\* lines 132-133: whether the stripped line is taken
GoodPreviewLine(line) ==
    line # <<>> /\ ~StartsWithHash(line) /\ Width(line) > MinPreview

\* line 133: line[:80] + '...' if len(line) > 80 else line
Shorten(line) ==
    IF Width(line) > MaxPreview THEN Slice(line, MaxPreview) \o Ellipsis ELSE line

RECURSIVE ScanPreview(_, _)
\* lines 130-134: the loop over lines[:10], from the i-th line on
ScanPreview(lines, i) ==
    IF i > Len(lines) \/ i > PreviewLines THEN FallbackPreview
    ELSE IF GoodPreviewLine(Strip(lines[i])) THEN Shorten(Strip(lines[i]))
    ELSE ScanPreview(lines, i + 1)

\* get_file_preview on a file that holds bytes; a read that raises (here: bytes
\* that are not UTF-8) ends in the except clause
get_file_preview(bytes) ==
    IF ~Decodable(bytes) THEN NoPreview ELSE ScanPreview(ReadLines(bytes), 1)

-----------------------------------------------------------------------------
(* get_file_preview on small files *)

\* how many lines of one kind a file starts with
MaxFiller == 10
\* how many lines follow them
MaxTail == 2

\* lines the loop passes over
FillerLines ==
    {<<LF>>,
     <<Run("#", 1), Run(" ", 1), Run("t", 30), LF>>,
     <<Run("a", 20), LF>>}

\* lines of every kind: blank, headings, short and long ones, with spaces
\* around them, ended by "\n", by "\r\n" or by "\r", and one that is not UTF-8
SampleLines ==
    FillerLines \cup
    {<<Run(" ", 3), LF>>,
     <<Run(" ", 2), Run("#", 1), Run("t", 30), LF>>,
     <<Run("b", 21), LF>>,
     <<Run("c", 21), CR>>,
     <<Run("d", 80), LF>>,
     <<Run(" ", 2), Run("e", 81), Run(" ", 1), CR, LF>>,
     <<Run("f", 50), Run(" ", 1), Run("g", 39), LF>>,
     <<Run("h", 30), BadByte, LF>>}

RECURSIVE Repeat(_, _)
Repeat(line, k) == IF k = 0 THEN <<>> ELSE line \o Repeat(line, k - 1)

RECURSIVE Tails(_)
Tails(n) ==
    IF n = 0 THEN {<<>>}
    ELSE Tails(n - 1) \cup {t \o l : t \in Tails(n - 1), l \in SampleLines}

InitPreview ==
    /\ file_bytes \in {Repeat(line, k) \o t :
                          line \in FillerLines, k \in 0..MaxFiller,
                          t \in Tails(MaxTail)}
    /\ preview = <<>>
    /\ previewed = "no"
    /\ AddIdle
    /\ SplitIdle
    /\ ServerIdle
    /\ MigIdle
    /\ CmdIdle

\* 'preview': self.get_file_preview(file_path)
GetFilePreview ==
    /\ previewed = "no"
    /\ preview' = get_file_preview(file_bytes)
    /\ previewed' = "yes"
    /\ UNCHANGED <<file_bytes, addVars, splitVars, serverVars, migVars, cmdVars>>

NextPreview == GetFilePreview

SpecPreview == InitPreview /\ [][NextPreview]_vars

-----------------------------------------------------------------------------
(* server.py: the working directory *)

\* A path of the file system is the sequence of its components, <<>> being
\* the working directory; tree maps each to what is there.
Absent == [kind |-> "absent", bytes |-> <<>>]
Directory == [kind |-> "directory", bytes |-> <<>>]
File(bytes) == [kind |-> "file", bytes |-> bytes]

Directories ==
    {<<>>, <<".claude">>, <<".claude", "commands">>, <<"docs">>,
     <<"node_modules">>, <<"node_modules", "pkg">>}

FilePaths ==
    {<<"AI-Roles.md">>, <<"README.md">>, <<"project-brief.md">>,
     <<".claude", "commands", "coder.md">>, <<"docs", "AI-Roles.md">>,
     <<"node_modules", "pkg", "README.md">>, <<"role-editor-enhanced.html">>,
     <<"missing.md">>}

Paths == Directories \cup FilePaths

\* os.path.exists
Exists(t, path) == t[path].kind # "absent"

\* The path of a request is a string; '.' + path names, from the working
\* directory, what the operating system resolves it to.
RequestPaths ==
    {"", "/AI-Roles.md", "/./AI-Roles.md", "/.claude/commands/coder.md",
     "/.claude/commands", "/missing.md"}

LocalPath(path) ==
    CASE path = "" -> <<>>
      [] path = "/AI-Roles.md" -> <<"AI-Roles.md">>
      [] path = "/./AI-Roles.md" -> <<"AI-Roles.md">>
      [] path = "/.claude/commands/coder.md" -> <<".claude", "commands", "coder.md">>
      [] path = "/.claude/commands" -> <<".claude", "commands">>
      [] path = "/README.md" -> <<"README.md">>
      [] path = "/docs" -> <<"docs">>
      [] OTHER -> <<"missing.md">>

\* a key the JSON object, or the query string, does not hold
NoKey == "<no key>"

\* data.get(key, ''), query_params.get('path', [''])[0]
GetOrEmpty(value) == IF value = NoKey THEN "" ELSE value

\* json.dumps({'success': True})
SuccessBody == <<[success |-> TRUE]>>

\* a request and its response; status 0: no response was sent, and error
\* names the exception the handler ended in, if one
Response(request, path, status, body, error) ==
    [request |-> request, path |-> path, status |-> status, body |-> body,
     error |-> error]

-----------------------------------------------------------------------------
(* FileServerHandler.get_all_md_files and get_file_type *)

Last(path) == path[Len(path)]

\* the names that match *.md
MdNames == {"AI-Roles.md", "README.md", "project-brief.md", "coder.md", "missing.md"}

\* the components a pattern that does not start with a dot does not match
HiddenNames == {".claude"}

\* glob.glob('**/*.md', recursive=True): the files named *.md, except those in
\* or below a directory whose name starts with a dot, or with such a name
Glob(t) ==
    {path \in FilePaths :
        /\ t[path].kind = "file"
        /\ Last(path) \in MdNames
        /\ \A i \in 1..Len(path) : path[i] \notin HiddenNames}

\* 'node_modules' in file_path
InNodeModules(path) == \E i \in 1..Len(path) : path[i] = "node_modules"

\* file_path.startswith('.claude/commands/')
InClaudeCommands(path) ==
    Len(path) >= 3 /\ path[1] = ".claude" /\ path[2] = "commands"

CoreDocuments ==
    {<<"README.md">>, <<"CLAUDE.md">>, <<"AI-Roles.md">>,
     <<"core-principles.md">>, <<"CHANGELOG.md">>}

ProjectDocuments ==
    {<<"project-brief.md">>, <<"mvp-requirements.md">>, <<"architecture.md">>,
     <<"pseudo-code.md">>, <<"evidence-tests.md">>}

\* lines 97-102
CategoryOf(path) ==
    IF InClaudeCommands(path) THEN "Role Commands"
    ELSE IF path \in CoreDocuments THEN "Core Documentation"
    ELSE "Project Files"

get_file_type(path) ==
    IF \E i \in 1..Len(path) : path[i] = "AI-Roles.md" THEN "roles"
    ELSE IF InClaudeCommands(path) THEN "command"
    ELSE IF path \in ProjectDocuments THEN "project"
    ELSE "doc"

\* get_file_preview of a path of the tree
PreviewOf(t, path) ==
    IF t[path].kind = "file" THEN get_file_preview(t[path].bytes) ELSE NoPreview

\* lines 89-94; 'path' is '/' + file_path
FileInfo(t, path) ==
    [name |-> Last(path), path |-> path, type |-> get_file_type(path),
     preview |-> PreviewOf(t, path)]

\* the order of str on the names
NameOrder == <<"AI-Roles.md", "README.md", "coder.md", "missing.md", "project-brief.md">>

NameRank(name) == CHOOSE i \in 1..Len(NameOrder) : NameOrder[i] = name

\* sorted(files, key=lambda x: x['name']) of the files of a category.  The sort
\* is stable and glob's order is the directory's, so files of one name may
\* come in either order.
SortedFiles(t, paths) ==
    {files \in [1..Cardinality(paths) -> {FileInfo(t, path) : path \in paths}] :
        /\ \A i, j \in 1..Cardinality(paths) : i # j => files[i] # files[j]
        /\ \A i, j \in 1..Cardinality(paths) :
              i < j => NameRank(files[i].name) <= NameRank(files[j].name)}

\* the insertion order of the dict
Categories == <<"Core Documentation", "Project Files", "Role Commands">>

\* lines 85-102: the files of a category
FilesOf(t, category) ==
    {path \in Glob(t) : ~InNodeModules(path) /\ CategoryOf(path) = category}

RECURSIVE ResultFrom(_, _, _)
\* lines 105-111, from the i-th category on; sorted[c] is the sorted list of c
ResultFrom(t, sorted, i) ==
    IF i > Len(Categories) THEN <<>>
    ELSE IF FilesOf(t, Categories[i]) # {}
         THEN <<[category |-> Categories[i], files |-> sorted[Categories[i]]]>>
                  \o ResultFrom(t, sorted, i + 1)
         ELSE ResultFrom(t, sorted, i + 1)

CategoryNames == {Categories[i] : i \in 1..Len(Categories)}

\* the lists get_all_md_files may return
get_all_md_files(t) ==
    {ResultFrom(t, sorted, 1) :
        sorted \in {f \in [CategoryNames -> UNION {SortedFiles(t, FilesOf(t, c)) : c \in CategoryNames}] :
                       \A c \in CategoryNames : f[c] \in SortedFiles(t, FilesOf(t, c))}}

-----------------------------------------------------------------------------
(* FileServerHandler.do_GET and do_POST *)

\* the files a new server may find: the documents and, each there or not,
\* the editor page, the role document (with Unix or Windows line ends), a
\* command file and a copy of the role document in docs
PlainText == <<Run("x", 30), LF>>
WindowsText == <<Run("y", 30), CR, LF, Run("z", 5), CR, LF>>

InitialTrees ==
    {[path \in Paths |->
        IF path \in Directories THEN Directory
        ELSE IF path = <<"missing.md">> THEN Absent
        ELSE IF path = <<"AI-Roles.md">> THEN roles_file
        ELSE IF path = <<".claude", "commands", "coder.md">> THEN command_file
        ELSE IF path = <<"docs", "AI-Roles.md">> THEN copy
        ELSE IF path = <<"role-editor-enhanced.html">> THEN page
        ELSE File(PlainText)] :
        roles_file \in {Absent, File(PlainText), File(WindowsText)},
        command_file \in {Absent, File(PlainText)},
        copy \in {Absent, File(PlainText)},
        page \in {Absent, File(PlainText)}}

NeverSaved == [posted |-> FALSE, content |-> <<>>]

InitServer ==
    /\ tree \in InitialTrees
    /\ initial_tree = tree
    /\ saved = [path \in Paths |-> NeverSaved]
    /\ response = Response("none", "", 0, <<>>, "")
    /\ AddIdle
    /\ SplitIdle
    /\ PreviewIdle
    /\ MigIdle
    /\ CmdIdle

\* what a client may post as 'content'
PostedContents ==
    {<<>>, <<Run("p", 4)>>, <<Run("q", 4), CR, LF, Run("r", 4)>>,
     <<Run("s", 4), LoneSurrogate>>}

otherThanServer == <<addVars, splitVars, previewVars, migVars, cmdVars>>

\* GET / and GET /role-editor-enhanced.html: serve_file sends the status and
\* the headers, then opens the page
GetPage ==
    /\ response' =
          IF tree[<<"role-editor-enhanced.html">>].kind = "file"
          THEN Response("GET /", "", 200, tree[<<"role-editor-enhanced.html">>].bytes, "")
          ELSE Response("GET /", "", 200, <<>>, "FileNotFoundError")
    /\ UNCHANGED <<tree, initial_tree, saved, otherThanServer>>

\* GET /api/files
GetFiles ==
    /\ \E files_data \in get_all_md_files(tree) :
          response' = Response("GET /api/files", "", 200, files_data, "")
    /\ UNCHANGED <<tree, initial_tree, saved, otherThanServer>>

\* GET /api/file?path=...: the status and the headers are sent before the file
\* is opened and read
GetFile ==
    /\ \E query \in RequestPaths \cup {NoKey} :
          LET file_path == GetOrEmpty(query)
              target == tree[LocalPath(file_path)]
          IN response' =
                IF file_path # "" /\ Exists(tree, LocalPath(file_path))
                THEN IF target.kind = "directory"
                     THEN Response("GET /api/file", file_path, 200, <<>>,
                                   "IsADirectoryError")
                     ELSE IF ~Decodable(target.bytes)
                     THEN Response("GET /api/file", file_path, 200, <<>>,
                                   "UnicodeDecodeError")
                     ELSE Response("GET /api/file", file_path, 200,
                                   UniversalNewlines(target.bytes), "")
                ELSE Response("GET /api/file", file_path, 404, <<>>, "")
    /\ UNCHANGED <<tree, initial_tree, saved, otherThanServer>>

\* any other GET: SimpleHTTPRequestHandler serves the working directory
GetOther ==
    /\ \E path \in {"/README.md", "/docs", "/missing.md"} :
          LET target == tree[LocalPath(path)]
          IN response' =
                IF target.kind = "file"
                THEN Response("GET", path, 200, target.bytes, "")
                ELSE IF target.kind = "directory"
                THEN Response("GET", path, 301, <<>>, "")
                ELSE Response("GET", path, 404, <<>>, "")
    /\ UNCHANGED <<tree, initial_tree, saved, otherThanServer>>

\* POST /api/save with a JSON object: open(file_path, 'w') empties the file
\* before write encodes the content
PostSave ==
    /\ \E path \in RequestPaths \cup {NoKey}, posted \in PostedContents,
          has_content \in BOOLEAN :
          LET file_path == LocalPath(GetOrEmpty(path))
              \* data.get('content', '')
              text == IF has_content THEN posted ELSE <<>>
          IN IF Exists(tree, file_path)
             THEN IF tree[file_path].kind = "directory"
                  THEN /\ response' = Response("POST /api/save", GetOrEmpty(path),
                                               0, <<>>, "IsADirectoryError")
                       /\ UNCHANGED <<tree, saved>>
                  ELSE IF ~Encodable(text)
                  THEN /\ tree' = [tree EXCEPT ![file_path] = File(<<>>)]
                       /\ response' = Response("POST /api/save", GetOrEmpty(path),
                                               0, <<>>, "UnicodeEncodeError")
                       /\ UNCHANGED saved
                  ELSE /\ tree' = [tree EXCEPT ![file_path] = File(text)]
                       /\ saved' = [saved EXCEPT ![file_path] =
                                       [posted |-> TRUE, content |-> text]]
                       /\ response' = Response("POST /api/save", GetOrEmpty(path),
                                               200, SuccessBody, "")
             ELSE /\ response' = Response("POST /api/save", GetOrEmpty(path),
                                          404, <<>>, "")
                  /\ UNCHANGED <<tree, saved>>
    /\ UNCHANGED <<initial_tree, otherThanServer>>

\* a POST to any other path: do_POST returns without sending anything
PostOther ==
    /\ response' = Response("POST", "/", 0, <<>>, "")
    /\ UNCHANGED <<tree, initial_tree, saved, otherThanServer>>

NextServer == GetPage \/ GetFiles \/ GetFile \/ GetOther \/ PostSave \/ PostOther

SpecServer == InitServer /\ [][NextServer]_vars

-----------------------------------------------------------------------------
(* RoleMigrator.run_migration on a small project directory *)

\* a path that names no file, and a file with its content
NoFile == [kind |-> "absent", text |-> <<>>]

TextFile(text) == [kind |-> "file", text |-> text]

\* the keys of self.roles, in the order of the dict
RoleOrder ==
    <<"project-initiator", "requirements-collector", "mvp-specialist",
      "architect", "planner", "pseudo-coder", "tdd-evidence-specialist",
      "coder", "documentation-writer", "git-mate">>

\* paths below base_path, and below backup_dir
AI_ROLES == <<"AI-Roles.md">>
CLAUDE_MD == <<"CLAUDE.md">>

\* f".claude/commands/{role_key}.md"
CommandFile(role_key) == <<".claude/commands/", role_key, ".md">>

\* lines 89-93
MainFiles == <<AI_ROLES, CLAUDE_MD, CommandFile("roles")>>

\* lines 96-97
CommandFiles == [i \in 1..Len(RoleOrder) |-> CommandFile(RoleOrder[i])]

\* files_to_backup had the loop of lines 96-97 not run
FilesToBackupWithoutCommands == MainFiles

files_to_backup == MainFiles \o CommandFiles

\* the files the script reads, copies or writes
MigFiles ==
    {MainFiles[i] : i \in 1..Len(MainFiles)}
        \cup {CommandFiles[i] : i \in 1..Len(CommandFiles)}

\* a Windows line end, as a fragment of a file
CRLF == "\r\n"

\* open(file_path, 'r').read(): text mode gives every line end as '\n'
ReadText(text) == [i \in 1..Len(text) |-> IF text[i] = CRLF THEN NL ELSE text[i]]

\* the literals migrate_command_files searches for
Q_AND_A == <<"## Interactive Q&A Framework">>
QUESTION == <<"## Question">>
KEY_RESPONSIBILITIES == <<"## Key Responsibilities">>

\* lines 381-400; "### Question Overview" holds the literal "## Question"
interaction_section(role_key) ==
    <<NL, "## Structured Interaction Pattern", NL, NL,
      "#", "## Question", " Overview", NL,
      "Present all questions upfront with hierarchical numbering (1, 1.1, 1.1.a)",
      NL, NL,
      "### Interactive Questioning", NL,
      "- Ask ONE question at a time", NL,
      "- Wait for user response before proceeding", NL,
      "- Allow 'skip', 'back', and 'overview' navigation", NL, NL,
      "### Progress Tracking", NL,
      "Show progress: [Question X of Y] or a bar, 30% complete", NL, NL,
      "### Summary & Confirmation", NL,
      "After all questions, provide summary and allow revisions", NL, NL,
      "## Role Display", NL,
      "**Current Role**: ", roles[role_key].name, " - ",
      roles[role_key].definition, NL,
      "**Next Suggested Role**: ", roles[role_key].next_role,
      " - Continue with next phase">>

\* lines 376-406: the content written back to the command file of a role
MigratedCommand(content, role_key) ==
    IF ~Contains(content, Q_AND_A) /\ ~Contains(content, QUESTION)
    THEN IF Contains(content, KEY_RESPONSIBILITIES)
         THEN StrReplace(content, KEY_RESPONSIBILITIES,
                         interaction_section(role_key) \o <<NL, NL>>
                             \o KEY_RESPONSIBILITIES)
         ELSE content \o <<NL>> \o interaction_section(role_key)
    ELSE content

\* the literals update_claude_md searches for
ROLE_TEMPLATE == <<"role-template.md">>
VERSION_ROW == <<"| VERSION | Current version">>
VERSION_HISTORY == <<"## Version History">>
REMINDERS == <<"# important-instruction-reminders">>

\* datetime.now().strftime('%Y-%m-%d')
Today == "<date>"

\* line 424
migration_note ==
    <<NL, "| ">> \o ROLE_TEMPLATE
        \o <<" | Standardized template for all roles with interaction patterns | 1.0 | ",
             Today, " |">>

\* lines 431-433
version_section ==
    <<NL>> \o VERSION_HISTORY
        \o <<NL, "- v1.3 (", Today,
             "): Migrated all roles to standardized template with hierarchical interaction patterns">>

\* lines 426-427
WithMigrationNote(content) ==
    IF ~Contains(content, ROLE_TEMPLATE)
    THEN StrReplace(content, VERSION_ROW, migration_note \o <<NL>> \o VERSION_ROW)
    ELSE content

\* lines 430-436
WithVersionSection(content) ==
    IF ~Contains(content, VERSION_HISTORY)
    THEN StrReplace(content, REMINDERS, version_section \o <<NL, NL>> \o REMINDERS)
    ELSE content

\* lines 420-436: the content written back to CLAUDE.md
UpdatedClaude(content) == WithVersionSection(WithMigrationNote(content))

\* how many command files the project directory holds
MaxCmdFiles == 1

\* role documents: one whose role lacks every section, one with Windows line
\* ends and a role self.roles does not know, one that lacks nothing
SampleDocuments ==
    {<<"# AI Roles", NL, HEADING, "coder", NL, "text", NL>>,
     <<HEADING, "team-lead", CRLF, "text", CRLF>>,
     <<HEADING, "architect", NL>> \o H_INTERACTIVE \o <<NL>> \o H_SOP \o <<NL>>
         \o H_EXAMPLE \o <<NL>> \o SUMMARY \o <<NL>> \o INSTRUMENTATION}

\* command files: with the heading the section goes before, without it, and
\* one that holds a marker already
CommandContents ==
    {<<"# Role", NL>> \o KEY_RESPONSIBILITIES \o <<NL, "text", NL>>,
     <<"text", CRLF>>,
     QUESTION \o <<"s", NL>>}

ClaudeContents ==
    {VERSION_ROW \o <<NL>> \o REMINDERS \o <<NL>>,
     <<"| ">> \o ROLE_TEMPLATE \o <<NL>> \o VERSION_HISTORY \o <<NL>>,
     <<"text", CRLF>>}

CommandFileSet == {CommandFiles[i] : i \in 1..Len(CommandFiles)}

\* which command files exist, and what they hold
CommandSets ==
    UNION {{[f \in CommandFileSet |-> IF f \in S THEN TextFile(given[f]) ELSE NoFile] :
               given \in [S -> CommandContents]} :
           S \in {T \in SUBSET CommandFileSet : Cardinality(T) <= MaxCmdFiles}}

Maybe(contents) == {NoFile} \cup {TextFile(text) : text \in contents}

InitialDisks ==
    {[f \in MigFiles |->
        IF f = AI_ROLES THEN ai_roles
        ELSE IF f = CLAUDE_MD THEN claude
        ELSE IF f = CommandFile("roles") THEN roles_md
        ELSE commands[f]] :
        ai_roles \in Maybe(SampleDocuments), claude \in Maybe(ClaudeContents),
        roles_md \in Maybe({<<"text", NL>>}), commands \in CommandSets}

\* migrator = RoleMigrator(); migrator.run_migration()
InitMig ==
    /\ disk \in InitialDisks
    /\ original = disk
    /\ backup = [f \in MigFiles |-> NoFile]
    /\ report_file = NoFile
    /\ run_report = <<>>
    /\ pc = "backup_files"
    /\ position = 1
    /\ AddIdle
    /\ SplitIdle
    /\ PreviewIdle
    /\ ServerIdle
    /\ CmdIdle

otherThanMig == <<addVars, splitVars, previewVars, serverVars, cmdVars>>

\* backup_files: one round of the loop of lines 99-105 and, after the last
\* round, line 107.  shutil.copy2 copies the bytes of the file.
BackupFile ==
    /\ pc = "backup_files"
    /\ LET file_path == files_to_backup[position]
       IN backup' = IF disk[file_path].kind = "file"
                    THEN [backup EXCEPT ![file_path] = disk[file_path]]
                    ELSE backup
    /\ IF position < Len(files_to_backup)
       THEN /\ position' = position + 1
            /\ UNCHANGED <<pc, run_report>>
       ELSE /\ position' = 1
            /\ pc' = "migrate_ai_roles_file"
            /\ run_report' = Append(run_report, [backup_created |-> "backup_dir"])
    /\ UNCHANGED <<disk, original, report_file, otherThanMig>>

\* migrate_ai_roles_file; open(file_path, 'r') raises if there is no AI-Roles.md
MigrateAiRolesFile ==
    /\ pc = "migrate_ai_roles_file"
    /\ IF disk[AI_ROLES].kind = "file"
       THEN LET sections == re_split(ReadText(disk[AI_ROLES].text))
                migrated == Assemble(sections, EnhancedBodies(sections))
            IN /\ disk' = [disk EXCEPT ![AI_ROLES] = TextFile(migrated.content)]
               /\ run_report' = run_report \o migrated.report
               /\ pc' = "migrate_command_files"
       ELSE /\ pc' = "FileNotFoundError"
            /\ UNCHANGED <<disk, run_report>>
    /\ UNCHANGED <<original, backup, report_file, position, otherThanMig>>

\* migrate_command_files: one round of the loop of lines 367-412
MigrateCommandFile ==
    /\ pc = "migrate_command_files"
    /\ LET role_key == RoleOrder[position]
           file_path == CommandFile(role_key)
       IN IF disk[file_path].kind = "file"
          THEN /\ disk' = [disk EXCEPT ![file_path] =
                              TextFile(MigratedCommand(ReadText(disk[file_path].text),
                                                       role_key))]
               /\ run_report' = Append(run_report, [updated |-> role_key])
          ELSE UNCHANGED <<disk, run_report>>
    /\ IF position < Len(RoleOrder)
       THEN /\ position' = position + 1
            /\ UNCHANGED pc
       ELSE /\ position' = 1
            /\ pc' = "update_claude_md"
    /\ UNCHANGED <<original, backup, report_file, otherThanMig>>

\* update_claude_md; open(file_path, 'r') raises if there is no CLAUDE.md
UpdateClaudeMd ==
    /\ pc = "update_claude_md"
    /\ IF disk[CLAUDE_MD].kind = "file"
       THEN /\ disk' = [disk EXCEPT ![CLAUDE_MD] =
                           TextFile(UpdatedClaude(ReadText(disk[CLAUDE_MD].text)))]
            /\ pc' = "generate_report"
       ELSE /\ pc' = "FileNotFoundError"
            /\ UNCHANGED disk
    /\ UNCHANGED <<original, backup, report_file, run_report, position, otherThanMig>>

\* generate_report writes a new file; of its text, the lines of
\* self.migration_report are kept here
GenerateReport ==
    /\ pc = "generate_report"
    /\ report_file' = TextFile(run_report)
    /\ pc' = "done"
    /\ UNCHANGED <<disk, original, backup, run_report, position, otherThanMig>>

NextMig ==
    BackupFile \/ MigrateAiRolesFile \/ MigrateCommandFile \/ UpdateClaudeMd
        \/ GenerateReport

SpecMig == InitMig /\ [][NextMig]_vars

-----------------------------------------------------------------------------
(* migrate_command_files, run after run, on the command file of one role *)

\* how many pieces a command file is made of, and how many runs are followed
MaxCmdPieces == 4
MaxRuns == 3

\* the pieces: text, line ends, the heading the block goes before, a '#'
\* that makes it a heading of the third level, and a marker
CmdPieces ==
    {<<"text">>, <<NL>>, <<CRLF>>, KEY_RESPONSIBILITIES, <<"#">>, QUESTION}

RECURSIVE CommandTexts(_)
CommandTexts(n) ==
    IF n = 0 THEN {<<>>}
    ELSE CommandTexts(n - 1)
             \cup {t \o p : t \in CommandTexts(n - 1), p \in CmdPieces}

\* a role with a next role that is a role, and the last one
SampleKeys == {"coder", "git-mate"}

InitCmd ==
    /\ cmd_role \in SampleKeys
    /\ cmd_initial \in Maybe(CommandTexts(MaxCmdPieces))
    /\ cmd_file = cmd_initial
    /\ runs = 0
    /\ AddIdle
    /\ SplitIdle
    /\ PreviewIdle
    /\ ServerIdle
    /\ MigIdle

\* migrate_command_files, as far as the file of the role goes (lines 368-412)
MigrateCommandFiles ==
    /\ runs < MaxRuns
    /\ cmd_file' = IF cmd_file.kind = "file"
                   THEN TextFile(MigratedCommand(ReadText(cmd_file.text), cmd_role))
                   ELSE cmd_file
    /\ runs' = runs + 1
    /\ UNCHANGED <<cmd_role, cmd_initial, addVars, splitVars, previewVars,
                   serverVars, migVars>>

NextCmd == MigrateCommandFiles

SpecCmd == InitCmd /\ [][NextCmd]_vars

-----------------------------------------------------------------------------
(* Claims about add_missing_elements (SpecAdd) *)

\* the marker the method tests for each section, by the name it reports
SectionNames ==
    {"interaction_pattern", "standard_operating_procedures", "example_usage",
     "summary_confirmation", "instrumentation"}

Marker(section) ==
    CASE section = "interaction_pattern" -> H_INTERACTIVE
      [] section = "standard_operating_procedures" -> H_SOP
      [] section = "example_usage" -> H_EXAMPLE
      [] section = "summary_confirmation" -> SUMMARY
      [] OTHER -> INSTRUMENTATION

InSeq(x, seq) == \E i \in 1..Len(seq) : seq[i] = x

EndsWith(text, suffix) ==
    OccursAt(text, suffix, Len(text) - Len(suffix) + 1)

\* C1: section insertion is idempotent: add_missing_elements applied to the
\* body it returned returns that body unchanged.
C1_Idempotent ==
    phase = "enhanced again" => enhanced_again.content = enhanced.content

\* C4: the body add_missing_elements returns contains all five standardized
\* sections, whatever the input body contained.
C4_AllFiveSections ==
    phase # "read" =>
        \A section \in SectionNames : Contains(enhanced.content, Marker(section))

\* the Summary & Confirmation block directly in front of the marker (of the
\* list item "13. WORKFLOW EVALUATION", or of the bare text)
BlockBeforeMarker(text) ==
    \E i \in 1..Len(text) :
        \/ OccursAt(text, confirmation_text \o <<NL>> \o WORKFLOW13, i)
        \/ OccursAt(text, confirmation_text \o <<NL>> \o WORKFLOW, i)
        \/ OccursAt(text, confirmation_text \o WORKFLOW, i)

\* C5: for a body without the Summary & Confirmation section, the block is
\* placed immediately before "WORKFLOW EVALUATION" when the body contains that
\* text, and at the end of the body when it does not.
C5_SummaryAnchored ==
    (phase # "read" /\ ~Contains(role_content, SUMMARY)) =>
        IF Contains(role_content, WORKFLOW)
        THEN BlockBeforeMarker(enhanced.content)
        ELSE EndsWith(enhanced.content, confirmation_text)

\* C10: the returned list names exactly the sections added: a name is in it
\* if and only if the returned body contains the section and the input body
\* did not; the list is empty exactly when the body is returned unchanged.
C10_ListNamesAdded ==
    phase # "read" =>
        /\ \A section \in SectionNames :
              InSeq(section, enhanced.enhancements) <=>
                  /\ Contains(enhanced.content, Marker(section))
                  /\ ~Contains(role_content, Marker(section))
        /\ (enhanced.enhancements = <<>>) <=> (enhanced.content = role_content)

-----------------------------------------------------------------------------
(* Claims about the split and the reassembly (SpecSplit) *)

\* every body left as it is
UnmodifiedBodies(sections) ==
    [i \in LoopIndices(sections) |->
        [content |-> sections[i + 2], enhancements |-> <<>>]]

\* C2: splitting the document on the role headings and reassembling the
\* preamble, the headings and the unmodified bodies in the loop of
\* migrate_ai_roles_file reproduces the document exactly.
C2_SplitReassembles ==
    stage # "read" =>
        Assemble(role_sections, UnmodifiedBodies(role_sections)).content
            = file_content

\* a document of two roles, the second heading ending it with an empty body
C2_Witness ==
    /\ stage = "split"
    /\ Len(role_sections) = 5
    /\ role_sections[1] # <<>>
    /\ role_sections[5] = <<>>

-----------------------------------------------------------------------------
(* Claims about get_file_preview (SpecPreview) *)

\* the file's lines as they stand in its bytes
BytesLines(bytes) == LinesFrom(UniversalNewlines(bytes), <<>>)

\* the lines among the first ten that qualify: stripped, they are not empty,
\* do not start with '#' and are longer than 20 characters
Qualifying(lines) ==
    {i \in 1..Len(lines) :
        /\ i <= 10
        /\ Strip(lines[i]) # <<>>
        /\ Strip(lines[i])[1].ch # "#"
        /\ Width(Strip(lines[i])) >= 21}

FirstQualifying(lines) ==
    CHOOSE i \in Qualifying(lines) : \A j \in Qualifying(lines) : i <= j

\* the preview the claim describes
DescribedPreview(lines) ==
    IF Qualifying(lines) = {} THEN <<Run("Markdown documentation file", 1)>>
    ELSE LET line == Strip(lines[FirstQualifying(lines)])
         IN IF Width(line) >= 81
            THEN Slice(line, 80) \o <<Run(".", 3)>>
            ELSE line

\* C9 as stated: get_file_preview returns the first qualifying line of the
\* first ten, cut to 80 characters plus '...' when longer, and the fallback
\* 'Markdown documentation file' when there is none.
C9_PreviewAsStated ==
    previewed = "yes" => preview = DescribedPreview(BytesLines(file_bytes))

\* C9 amended: that holds of a file whose bytes are UTF-8; of a file that is
\* not, the preview is 'File preview not available' whatever its lines are.
C9_PreviewOfReadableFile ==
    previewed = "yes" =>
        IF Decodable(file_bytes)
        THEN preview = DescribedPreview(BytesLines(file_bytes))
        ELSE preview = <<Run("File preview not available", 1)>>

\* a file whose tenth line is its first qualifying one and is cut to 80
C9_Witness ==
    /\ previewed = "yes"
    /\ Decodable(file_bytes)
    /\ Qualifying(BytesLines(file_bytes)) # {}
    /\ FirstQualifying(BytesLines(file_bytes)) = 10
    /\ Width(preview) = 83

-----------------------------------------------------------------------------
(* Claims about the File Service (SpecServer) *)

\* the last request was a save whose path does not name an existing file
SaveToNoFile(r, t) ==
    r.request = "POST /api/save" /\ t[LocalPath(r.path)].kind # "file"

\* C3: the File Service never creates a file: the set of existing paths stays
\* what it was; and a POST /api/save whose path does not resolve to an
\* existing file is answered with 404 and leaves every file's content as it was.
C3_NoCreationAnd404 ==
    /\ [](\A path \in Paths : Exists(tree, path) <=> Exists(initial_tree, path))
    /\ [](SaveToNoFile(response, tree) => response.status = 404)
    /\ [][SaveToNoFile(response', tree) => tree' = tree]_vars

\* C7: last write wins: GET /api/file for an existing file returns exactly the
\* content of the most recent successful POST /api/save to it, or its initial
\* content if there was none; for a path that does not exist it returns 404.
C7_LastWriteWins ==
    response.request = "GET /api/file" =>
        LET target == LocalPath(response.path)
        IN /\ (response.path # "" /\ tree[target].kind = "file") =>
                  /\ response.status = 200
                  /\ response.body = IF saved[target].posted
                                     THEN saved[target].content
                                     ELSE initial_tree[target].bytes
           /\ tree[target].kind = "absent" => response.status = 404

\* the listing holds the file in that category with that type
ListedAs(listing, path, category, type) ==
    \E i \in 1..Len(listing) :
        /\ listing[i].category = category
        /\ \E j \in 1..Len(listing[i].files) :
              /\ listing[i].files[j].path = path
              /\ listing[i].files[j].type = type

\* the places of the listing that hold the file
PlacesOf(listing, path) ==
    {<<i, j>> \in (1..Len(listing)) \X (1..Cardinality(FilePaths)) :
        j <= Len(listing[i].files) /\ listing[i].files[j].path = path}

\* C8: in the listing of get_all_md_files every Markdown file whose path starts
\* with '.claude/commands/' is in 'Role Commands' with type 'command', the file
\* 'AI-Roles.md' is in 'Core Documentation' with type 'roles', and each listed
\* file is in exactly one bucket.
C8_Categorized ==
    response.request = "GET /api/files" =>
        /\ \A path \in FilePaths :
              (tree[path].kind = "file" /\ Last(path) \in MdNames
                   /\ InClaudeCommands(path)) =>
                  ListedAs(response.body, path, "Role Commands", "command")
        /\ tree[<<"AI-Roles.md">>].kind = "file" =>
              ListedAs(response.body, <<"AI-Roles.md">>, "Core Documentation", "roles")
        /\ \A path \in FilePaths : Cardinality(PlacesOf(response.body, path)) <= 1

-----------------------------------------------------------------------------
(* Claims about run_migration (SpecMig) *)

\* the backup of every source file that existed when the run started holds
\* what the file held then
AllBackedUp ==
    \A f \in MigFiles : original[f].kind = "file" => backup[f] = original[f]

\* a step of the run that writes an original file
WritesOriginal == MigrateAiRolesFile \/ MigrateCommandFile \/ UpdateClaudeMd

\* C6: in a run of run_migration no original file is overwritten before the
\* backup step has completed, the backup of every source file that existed
\* holds that file's pre-migration content, and the backup step itself
\* changes no original file.
C6_BackupBeforeOverwrite ==
    /\ [][(WritesOriginal \/ disk' # disk) => AllBackedUp]_vars
    /\ [](pc # "backup_files" => AllBackedUp)
    /\ [][pc = "backup_files" => disk' = disk]_vars

\* a finished run that changed the role document and a command file, each of
\* which the backup holds as it was
C6_Witness ==
    /\ pc = "done"
    /\ disk[AI_ROLES] # original[AI_ROLES]
    /\ backup[AI_ROLES] = original[AI_ROLES]
    /\ \E i \in 1..Len(CommandFiles) :
          /\ original[CommandFiles[i]].kind = "file"
          /\ disk[CommandFiles[i]] # original[CommandFiles[i]]
          /\ backup[CommandFiles[i]] = original[CommandFiles[i]]

-----------------------------------------------------------------------------
(* Claims about the instrumentation step of add_missing_elements (SpecAdd) *)

\* role_content and enhancements as they are when line 317 is reached
BeforeInstrumentation ==
    CheckSummary(
        CheckExample(
            CheckSop(
                CheckInteraction(
                    [content |-> role_content, enhancements |-> NoEnhancements],
                    role_name),
                role_name),
            role_name))

\* a line of the text starts at i with the list number "8." and a space
Item8At(text, i) ==
    /\ OccursAt(text, EIGHT, i)
    /\ (i = 1 \/ text[i - 1] = NL)

Item8Lines(text) == {i \in 1..Len(text) : Item8At(text, i)}

\* the text with its first line that is the list item 8 rewritten, from the
\* number to the end of that line, and every other line as it was
FirstItem8Rewritten(text) ==
    IF Item8Lines(text) = {} THEN text
    ELSE LET first == CHOOSE i \in Item8Lines(text) :
                          \A j \in Item8Lines(text) : i <= j
         IN SubSeq(text, 1, first - 1)
                \o instrumentation_text \o <<NL, "9.", SP>>
                \o SubSeq(text, DotRunEnd(text, first), Len(text))

\* C11: when add_missing_elements inserts the Instrumentation block it
\* rewrites only the first line that is a numbered-list item beginning "8.";
\* every other line of the body, later lines that contain "8. " and the items
\* numbered 18., 28. and so on included, is left unchanged.
C11_OnlyFirstItem8 ==
    (phase # "read" /\ InSeq("instrumentation", enhanced.enhancements)) =>
        enhanced.content = FirstItem8Rewritten(BeforeInstrumentation.content)

-----------------------------------------------------------------------------
(* Claims about migrate_command_files (SpecCmd) *)

\* the places of the text where the needle occurs
Occurrences(text, needle) == {i \in 1..Len(text) : OccursAt(text, needle, i)}

\* the command file existed and held neither marker heading
NeitherMarker ==
    /\ cmd_initial.kind = "file"
    /\ ~Contains(cmd_initial.text, Q_AND_A)
    /\ ~Contains(cmd_initial.text, QUESTION)

\* C12: for an existing command file that initially holds neither marker
\* heading, after one run of migrate_command_files the file holds the block
\* of the role exactly once, immediately before the 'Key Responsibilities'
\* heading if there is one and at the end otherwise, and any number of
\* further runs leave the content of the file unchanged.
C12_BlockOnceAndStable ==
    /\ []((NeitherMarker /\ runs >= 1) =>
            /\ Cardinality(Occurrences(cmd_file.text, interaction_section(cmd_role))) = 1
            /\ IF Contains(cmd_initial.text, KEY_RESPONSIBILITIES)
               THEN Contains(cmd_file.text,
                             interaction_section(cmd_role) \o <<NL, NL>>
                                 \o KEY_RESPONSIBILITIES)
               ELSE EndsWith(cmd_file.text, interaction_section(cmd_role)))
    /\ [][(NeitherMarker /\ runs >= 1) => cmd_file' = cmd_file]_vars

-----------------------------------------------------------------------------
(* Claims about the outcome of POST /api/save (SpecServer) *)

\* the save was answered 200 with {success: true}, and its target holds the
\* content that was given
SavedAndAcknowledged(r, t, s) ==
    /\ r.status = 200
    /\ r.body = SuccessBody
    /\ r.error = ""
    /\ s[LocalPath(r.path)].posted
    /\ t[LocalPath(r.path)] = File(s[LocalPath(r.path)].content)

\* the save was answered 404
Rejected(r) == r.status = 404 /\ r.error = ""

\* C13: every POST /api/save with a JSON object body ends in exactly one of
\* two outcomes: 200 with {success: true} after the target file's content has
\* been set to the given content, or 404 with the filesystem unchanged; none,
\* with a missing or empty path or a path naming a directory included, ends
\* without a response or in an unhandled error.
C13_SaveAnswered ==
    /\ [](response.request = "POST /api/save" =>
             SavedAndAcknowledged(response, tree, saved) \/ Rejected(response))
    /\ [][(response'.request = "POST /api/save" /\ Rejected(response')) =>
             tree' = tree]_vars

=============================================================================
